---- MODULE Spec2Model ----
(***************************************************************************)
(* MensaTrainBot (src/mensatrain.py): the three tables users, schedule and *)
(* tickets, and the handlers /add_departure, /ticket and /revoke, one      *)
(* action per database statement of a handler.                             *)
(*                                                                         *)
(* Spec     : the bot as main() runs it.  The handlers are registered as   *)
(*            plain CommandHandlers, so the dispatcher handles one update  *)
(*            at a time: a request starts only when no other is running.   *)
(* SpecHist : Spec, with the history variable hist kept up to date.        *)
(* SpecConc : requests of several callers run at once and interleave at    *)
(*            the database statements (each query reads the committed      *)
(*            tables, each add()+commit() is one write).                   *)
(***************************************************************************)
EXTENDS Integers, Sequences, FiniteSets, TLC

\* ---------------------------------------------------------------- bounds
MaxDay      == 2      \* calendar days the clock runs through
MaxSchedule == 3      \* rows of table schedule when a request may still add one
MaxTickets  == 3      \* rows of table tickets when a request may still add one
MaxConcSchedule == 2  \* the same for the requests that run at once
MaxConcTickets  == 2

\* ------------------------------------------------ constants of parse_args
StartHour == 11
EndHour   == 14
EndMinute == 30

Procs    == {1, 2}         \* request slots; the dispatcher thread is the first
Dispatcher == 1
Tids     == {1, 2}         \* update.effective_user.id of the callers
Days     == 1..MaxDay
Stations == {"Central", "North"}

\* ------------------------------------------------------------------ rows
\* UserMap: id is the position in users (autoincrement, rows never deleted)
UserMap(tid) == [tid |-> tid]
\* ScheduleMap: id is the position in schedule; valid defaults to True
ScheduleMap(date, station, owner) ==
    [date |-> date, station |-> station, owner |-> owner, valid |-> TRUE]
\* a TicketMap whose valid column defaults to False
TicketMap_invalid(sid, uid) == [sid |-> sid, uid |-> uid, valid |-> FALSE]
\* TicketMap: id is the position in tickets; valid defaults to True
TicketMap(sid, uid) == [sid |-> sid, uid |-> uid, valid |-> TRUE]

\* ------------------------------------------------------ dates and texts
\* a datetime.datetime: calendar day, hour, minute
DateTime(d, h, m) == [day |-> d, hour |-> h, minute |-> m]
None == [day |-> 0, hour |-> 0, minute |-> 0]

\* The text of args[0].  "clock" is a time of day without a date ("14:30"),
\* "full" is a date with a time ("2018-05-03 14:30:00"), "junk" is a text
\* dateutil cannot read.
ClockText(h, m)   == [kind |-> "clock", day |-> 0, hour |-> h, minute |-> m]
FullText(d, h, m) == [kind |-> "full", day |-> d, hour |-> h, minute |-> m]
JunkText          == [kind |-> "junk", day |-> 0, hour |-> 0, minute |-> 0]

\* str(args[0]) of a datetime, as add_departure hands it to ticket: the
\* ISO text carries the date.
Str(date) == FullText(date.day, date.hour, date.minute)

\* dateutil.parser.parse: a text without a date is completed with the date of
\* the call; junk raises ValueError (None here).
dateutil_parse(text, now) ==
    CASE text.kind = "clock" -> DateTime(now, text.hour, text.minute)
      [] text.kind = "full"  -> DateTime(text.day, text.hour, text.minute)
      [] OTHER               -> None

\* parse_args with the end of the window excluded (minute >= 30)
parse_args_end_excluded(args, now) ==
    IF Len(args) < 2
    THEN [date |-> None, station |-> "Not enough arguments"]
    ELSE LET date == dateutil_parse(args[1], now) IN
         IF date = None
         THEN [date |-> None, station |-> "Invalid date format"]
         ELSE IF ~(now = date.day)
         THEN [date |-> None, station |-> "only supported for the same day"]
         ELSE IF (date.hour > EndHour)
                 \/ (date.hour = EndHour /\ date.minute >= EndMinute)
                 \/ (date.hour < StartHour)
         THEN [date |-> None, station |-> "only possible from 11:00 until 14:30"]
         ELSE [date |-> date, station |-> args[2]]

\* parse_args without the test for the day of the call
parse_args_any_day(args, now) ==
    IF Len(args) < 2
    THEN [date |-> None, station |-> "Not enough arguments"]
    ELSE LET date == dateutil_parse(args[1], now) IN
         IF date = None
         THEN [date |-> None, station |-> "Invalid date format"]
         ELSE IF (date.hour > EndHour)
                 \/ (date.hour = EndHour /\ date.minute > EndMinute)
                 \/ (date.hour < StartHour)
         THEN [date |-> None, station |-> "only possible from 11:00 until 14:30"]
         ELSE [date |-> date, station |-> args[2]]

\* parse_args: (date, station) or (None, message)
parse_args(args, now) ==
    IF Len(args) < 2
    THEN [date |-> None, station |-> "Not enough arguments"]
    ELSE LET date == dateutil_parse(args[1], now) IN
         IF date = None
         THEN [date |-> None, station |-> "Invalid date format"]
         ELSE IF ~(now = date.day)
         THEN [date |-> None, station |-> "only supported for the same day"]
         ELSE IF (date.hour > EndHour)
                 \/ (date.hour = EndHour /\ date.minute > EndMinute)
                 \/ (date.hour < StartHour)
         THEN [date |-> None, station |-> "only possible from 11:00 until 14:30"]
         ELSE [date |-> date, station |-> args[2]]

\* ---------------------------------------------------------------- queries
\* `TicketMap.valid is True` / `ScheduleMap.valid is True`: Python evaluates
\* the identity test of a Column attribute against True when the query is
\* built; the attribute is not the object True, so the criterion handed to
\* filter() is the constant False, which SQLAlchemy renders as a false WHERE
\* clause.
valid_is_True(row) == FALSE

\* ScheduleMap.date > date.today(), ScheduleMap.date < date.today() + 1 day:
\* strictly after midnight of the day, strictly before the next midnight
date_is_today(date, now) ==
    /\ date.day = now
    /\ (date.hour > 0 \/ date.minute > 0)

\* session.query(UserMap).filter_by(tid=user_id)
users_by_tid(us, tid) == {i \in 1..Len(us) : us[i].tid = tid}

\* the query of get_user_ticket
user_ticket_query(ts, sch, uid, now) ==
    {i \in 1..Len(ts) : /\ valid_is_True(ts[i])
                        /\ ts[i].uid = uid
                        /\ date_is_today(sch[ts[i].sid].date, now)}

\* session.query(ScheduleMap).filter_by(date=args[0], station=args[1])
journeys_query(sch, date, station) ==
    {i \in 1..Len(sch) : sch[i].date = date /\ sch[i].station = station}

DateKey(date) == (date.day * 24 + date.hour) * 60 + date.minute

RECURSIVE order_by_date(_, _)
order_by_date(S, sch) ==
    IF S = {} THEN <<>>
    ELSE LET first == CHOOSE i \in S : \A j \in S :
                         \/ DateKey(sch[i].date) < DateKey(sch[j].date)
                         \/ (DateKey(sch[i].date) = DateKey(sch[j].date) /\ i <= j)
         IN <<first>> \o order_by_date(S \ {first}, sch)

RECURSIVE ascending(_)
ascending(S) ==
    IF S = {} THEN <<>>
    ELSE LET first == CHOOSE i \in S : \A j \in S : i <= j
         IN <<first>> \o ascending(S \ {first})

\* the participants query of get_trains_today: TicketMap.valid == True is a
\* column comparison, evaluated by the database
participants(ts, sid) ==
    ascending({i \in 1..Len(ts) : ts[i].sid = sid /\ ts[i].valid = TRUE})

\* get_trains_today: [id, hour, minute, station, passengers (user ids)]
get_trains_today(sch, ts, now) ==
    LET journeys == order_by_date(
            {i \in 1..Len(sch) : /\ date_is_today(sch[i].date, now)
                                 /\ valid_is_True(sch[i])}, sch)
    IN [k \in 1..Len(journeys) |->
          [id |-> journeys[k],
           hour |-> sch[journeys[k]].date.hour,
           minute |-> sch[journeys[k]].date.minute,
           station |-> sch[journeys[k]].station,
           passengers |-> [n \in 1..Len(participants(ts, journeys[k])) |->
                             ts[participants(ts, journeys[k])[n]].uid]]]

\* ------------------------------------------------------------------ state
VARIABLES
    users,      \* table users
    schedule,   \* table schedule
    tickets,    \* table tickets
    today,      \* datetime.date.today()
    proc,       \* the requests in flight: handler, caller, arguments, locals
    pre,        \* history: the tables as they were when the request began
    hist        \* history: per caller, how far through reserve, revoke it is

vars == <<users, schedule, tickets, today, proc, pre, hist>>

\* the args of an update: none, or a time and a station.  Two texts name a
\* slot inside the window, the others are rejected by parse_args (a full date
\* is accepted on its own day only).
SlotChoices ==
    {<<ClockText(StartHour, 0), "Central">>,
     <<ClockText(EndHour, EndMinute), "North">>}
ArgChoices ==
    {<<>>} \cup SlotChoices
    \cup {<<ClockText(EndHour, EndMinute + 1), "Central">>,
          <<ClockText(StartHour - 1, 59), "Central">>,
          <<JunkText, "Central">>}
    \cup {<<FullText(d, StartHour, 0), "Central">> : d \in Days}
\* the args of the requests that run at once
ConcArgChoices ==
    {<<>>, <<ClockText(EndHour, EndMinute), "Central">>,
     <<ClockText(EndHour, EndMinute), "North">>}

Idle ==
    [pc |-> "idle", op |-> "none", tid |-> 0, args |-> <<>>, targs |-> <<>>,
     user |-> 0,
     ret |-> "none", date |-> None, station |-> "", jid |-> 0, sid |-> 0,
     tkt |-> 0, reply |-> "none", shown |-> <<>>]

NoSnapshot == [users |-> <<>>, schedule |-> <<>>, tickets |-> <<>>, today |-> 0]
Snapshot == [users |-> users, schedule |-> schedule, tickets |-> tickets,
             today |-> today]

\* MensaTrainBot("fahrplan.db") on a fresh file: create_all makes empty tables
Init ==
    /\ users = <<>>
    /\ schedule = <<>>
    /\ tickets = <<>>
    /\ today = 1
    /\ proc = [p \in Procs |-> Idle]
    /\ pre = NoSnapshot
    /\ hist = [t \in Tids |-> 0]

Goto(p, rec) == proc' = [proc EXCEPT ![p] = rec]
Finish(p, reply) == Goto(p, [proc[p] EXCEPT !.pc = "done", !.reply = reply])

\* Query.one(): the only row, else NoResultFound / MultipleResultsFound (0)
one(rows) == IF Cardinality(rows) = 1 THEN CHOOSE i \in rows : TRUE ELSE 0

\* ------------------------------------------------------ request dispatch
Entry(op) == CASE op = "add_departure" -> "a_parse"
               [] op = "schedule"      -> "s_list"
               [] OTHER                -> "gu_count"
Cont(op)  == CASE op = "ticket" -> "t_check"
               [] op = "revoke" -> "r_check"
               [] OTHER         -> "a_insert"

\* an update arrives and its CommandHandler calls the handler
Call(p, choices, maxSchedule, maxTickets) ==
    /\ proc[p].pc = "idle"
    /\ \E op \in {"ticket", "revoke", "add_departure", "schedule"},
          tid \in Tids, args \in choices :
          /\ op \in {"revoke", "schedule"} => args = <<>>
          /\ op = "add_departure" => Len(schedule) < maxSchedule
          /\ op \in {"ticket", "add_departure"} => Len(tickets) < maxTickets
          /\ Goto(p, [Idle EXCEPT !.pc = Entry(op), !.op = op, !.tid = tid,
                                  !.args = args, !.ret = Cont(op),
                                  !.targs = IF op = "ticket" THEN args ELSE <<>>])
    /\ UNCHANGED <<users, schedule, tickets, today, hist>>

\* the dispatcher thread takes the next update when the handler has returned
Dispatch ==
    /\ \A q \in Procs : proc[q].pc = "idle"
    /\ Call(Dispatcher, ArgChoices, MaxSchedule, MaxTickets)
    /\ pre' = Snapshot

\* a request arrives while others are being handled
Arrive(p) ==
    /\ Call(p, ConcArgChoices, MaxConcSchedule, MaxConcTickets)
    /\ UNCHANGED pre

\* history of a caller's day: 0, 1 once a reservation of the caller was
\* bought, 2 once the caller has called /revoke after that
Advance(h, op, reply) ==
    CASE h = 0 /\ reply = "Bought" -> 1
      [] h = 1 /\ op = "revoke"    -> 2
      [] OTHER                     -> h

\* the reply is sent and the handler returns to the dispatcher
Return(p) ==
    /\ proc[p].pc = "done"
    /\ Goto(p, Idle)
    /\ pre' = NoSnapshot
    /\ UNCHANGED <<users, schedule, tickets, today, hist>>

\* the same, with the caller's history of the day noted (SpecHist)
ReturnNoted(p) ==
    /\ proc[p].pc = "done"
    /\ Goto(p, Idle)
    /\ pre' = NoSnapshot
    /\ hist' = [hist EXCEPT ![proc[p].tid] =
                    Advance(@, proc[p].op, proc[p].reply)]
    /\ UNCHANGED <<users, schedule, tickets, today>>

\* the reply is sent and the handler returns (requests running at once)
Leave(p) ==
    /\ proc[p].pc = "done"
    /\ Goto(p, Idle)
    /\ UNCHANGED <<users, schedule, tickets, today, pre, hist>>

\* midnight passes (between requests)
Tick ==
    /\ \A q \in Procs : proc[q].pc = "idle"
    /\ today < MaxDay
    /\ today' = today + 1
    /\ hist' = [t \in Tids |-> 0]
    /\ UNCHANGED <<users, schedule, tickets, proc, pre>>

\* ---------------------------------------------------------------- get_user
\* get_user without the test for a known user: every call inserts a row
get_user_count_untested(p) ==
    /\ proc[p].pc = "gu_count"
    /\ Goto(p, [proc[p] EXCEPT !.pc = "gu_insert"])
    /\ UNCHANGED <<users, schedule, tickets, today, pre, hist>>

\* user.count() == 0
get_user_count(p) ==
    /\ proc[p].pc = "gu_count"
    /\ Goto(p, [proc[p] EXCEPT !.pc =
           IF Cardinality(users_by_tid(users, proc[p].tid)) = 0
           THEN "gu_insert" ELSE "gu_one"])
    /\ UNCHANGED <<users, schedule, tickets, today, pre, hist>>

\* session.add(UserMap(...)); session.commit()
get_user_insert(p) ==
    /\ proc[p].pc = "gu_insert"
    /\ users' = Append(users, UserMap(proc[p].tid))
    /\ Goto(p, [proc[p] EXCEPT !.pc = "gu_one"])
    /\ UNCHANGED <<schedule, tickets, today, pre, hist>>

\* return user.one()
get_user_one(p) ==
    /\ proc[p].pc = "gu_one"
    /\ LET u == one(users_by_tid(users, proc[p].tid)) IN
       IF u = 0 THEN Finish(p, "raised")
       ELSE Goto(p, [proc[p] EXCEPT !.pc = proc[p].ret, !.user = u])
    /\ UNCHANGED <<users, schedule, tickets, today, pre, hist>>

\* ------------------------------------------------------------------ ticket
\* user_ticket = self.get_user_ticket(update) (the query and one_or_none()),
\* the already-registered reply, and parse_args
ticket_check(p) ==
    /\ proc[p].pc = "t_check"
    /\ LET rows == user_ticket_query(tickets, schedule, proc[p].user, today)
           a    == parse_args(proc[p].targs, today)
       IN IF Cardinality(rows) > 1 THEN Finish(p, "raised")
          ELSE IF rows # {} THEN Finish(p, "AlreadyBooked")
          ELSE IF a.date = None
          THEN Goto(p, [proc[p] EXCEPT !.pc = "t_select"])
          ELSE Goto(p, [proc[p] EXCEPT !.pc = "t_count0", !.date = a.date,
                                       !.station = a.station])
    /\ UNCHANGED <<users, schedule, tickets, today, pre, hist>>

\* schedule = self.get_trains_today(); "Select an available train."
ticket_select(p) ==
    /\ proc[p].pc = "t_select"
    /\ Goto(p, [proc[p] EXCEPT !.pc = "done", !.reply = "SelectionRequired",
                   !.shown = get_trains_today(schedule, tickets, today)])
    /\ UNCHANGED <<users, schedule, tickets, today, pre, hist>>

\* ticket without the test for an empty result
ticket_count0_untested(p) ==
    /\ proc[p].pc = "t_count0"
    /\ Goto(p, [proc[p] EXCEPT !.pc = "t_count1"])
    /\ UNCHANGED <<users, schedule, tickets, today, pre, hist>>

\* journeys.count() == 0
ticket_count0(p) ==
    /\ proc[p].pc = "t_count0"
    /\ IF Cardinality(journeys_query(schedule, proc[p].date, proc[p].station)) = 0
       THEN Finish(p, "NoSuchDeparture")
       ELSE Goto(p, [proc[p] EXCEPT !.pc = "t_count1"])
    /\ UNCHANGED <<users, schedule, tickets, today, pre, hist>>

\* journeys.count() > 1, then user = self.get_user(update)
ticket_count1(p) ==
    /\ proc[p].pc = "t_count1"
    /\ IF Cardinality(journeys_query(schedule, proc[p].date, proc[p].station)) > 1
       THEN Finish(p, "DuplicateJourneys")
       ELSE Goto(p, [proc[p] EXCEPT !.pc = "gu_count", !.ret = "t_one"])
    /\ UNCHANGED <<users, schedule, tickets, today, pre, hist>>

\* journey = journeys.one()
ticket_one(p) ==
    /\ proc[p].pc = "t_one"
    /\ LET j == one(journeys_query(schedule, proc[p].date, proc[p].station)) IN
       IF j = 0 THEN Finish(p, "raised")
       ELSE Goto(p, [proc[p] EXCEPT !.pc = "t_insert", !.jid = j])
    /\ UNCHANGED <<users, schedule, tickets, today, pre, hist>>

\* session.add(TicketMap(sid=journey.id, uid=user.id)); session.commit()
ticket_insert(p) ==
    /\ proc[p].pc = "t_insert"
    /\ tickets' = Append(tickets, TicketMap(proc[p].jid, proc[p].user))
    /\ Goto(p, [proc[p] EXCEPT !.pc = "done", !.reply = "Bought",
                               !.tkt = Len(tickets) + 1])
    /\ UNCHANGED <<users, schedule, today, pre, hist>>

\* ------------------------------------------------------------------ revoke
\* user_ticket = self.get_user_ticket(update); without one the error reply,
\* else ticket.valid = False and session.commit()
revoke_check(p) ==
    /\ proc[p].pc = "r_check"
    /\ LET rows == user_ticket_query(tickets, schedule, proc[p].user, today) IN
       IF Cardinality(rows) > 1
       THEN Finish(p, "raised") /\ UNCHANGED tickets
       ELSE IF rows = {}
       THEN Finish(p, "NoActiveTicket") /\ UNCHANGED tickets
       ELSE /\ tickets' = [tickets EXCEPT ![one(rows)].valid = FALSE]
            /\ Goto(p, [proc[p] EXCEPT !.pc = "done", !.reply = "Revoked",
                                       !.tkt = one(rows)])
    /\ UNCHANGED <<users, schedule, today, pre, hist>>

\* ---------------------------------------------------------------- schedule
\* schedule_information = self.get_trains_today(); the table is the reply
schedule_list(p) ==
    /\ proc[p].pc = "s_list"
    /\ Goto(p, [proc[p] EXCEPT !.pc = "done", !.reply = "Schedule",
                   !.shown = get_trains_today(schedule, tickets, today)])
    /\ UNCHANGED <<users, schedule, tickets, today, pre, hist>>

\* ----------------------------------------------------------- add_departure
\* args = self.parse_args(...); "Error processing your request" if None
add_departure_parse(p) ==
    /\ proc[p].pc = "a_parse"
    /\ LET a == parse_args(proc[p].args, today) IN
       IF a.date = None THEN Finish(p, a.station)
       ELSE Goto(p, [proc[p] EXCEPT !.pc = "gu_count", !.date = a.date,
                                    !.station = a.station])
    /\ UNCHANGED <<users, schedule, tickets, today, pre, hist>>

\* add_departure without its last line: the row is added, no ticket is taken
add_departure_insert_only(p) ==
    /\ proc[p].pc = "a_insert"
    /\ schedule' = Append(schedule,
           ScheduleMap(proc[p].date, proc[p].station, proc[p].user))
    /\ Goto(p, [proc[p] EXCEPT !.pc = "done", !.reply = "none",
                               !.sid = Len(schedule) + 1])
    /\ UNCHANGED <<users, tickets, today, pre, hist>>

\* session.add(ScheduleMap(...)); session.commit(); then
\* self.ticket(bot, update, args=args) with args = (date, station)
add_departure_insert(p) ==
    /\ proc[p].pc = "a_insert"
    /\ schedule' = Append(schedule,
           ScheduleMap(proc[p].date, proc[p].station, proc[p].user))
    /\ Goto(p, [proc[p] EXCEPT !.pc = "gu_count", !.ret = "t_check",
                   !.sid = Len(schedule) + 1,
                   !.targs = <<Str(proc[p].date), proc[p].station>>,
                   !.date = None, !.station = ""])
    /\ UNCHANGED <<users, tickets, today, pre, hist>>

\* ------------------------------------------------------------------- specs
Handler(p) ==
    \/ get_user_count(p)
    \/ get_user_insert(p)
    \/ get_user_one(p)
    \/ ticket_check(p)
    \/ ticket_select(p)
    \/ ticket_count0(p)
    \/ ticket_count1(p)
    \/ ticket_one(p)
    \/ ticket_insert(p)
    \/ revoke_check(p)
    \/ schedule_list(p)
    \/ add_departure_parse(p)
    \/ add_departure_insert(p)

Next == Tick \/ Dispatch \/ \E p \in Procs : Handler(p) \/ Return(p)

Spec == Init /\ [][Next]_vars

\* Spec with the history of each caller's day kept in hist
NextHist == Tick \/ Dispatch \/ \E p \in Procs : Handler(p) \/ ReturnNoted(p)

SpecHist == Init /\ [][NextHist]_vars

NextConc == \E p \in Procs : Arrive(p) \/ Handler(p) \/ Leave(p)

SpecConc == Init /\ [][NextConc]_vars

\* ================================================================= claims
\* the tickets with valid = True that the caller tid owns on a departure of
\* the day now, in the tables (us, sch, ts)
ActiveToday(us, sch, ts, now, tid) ==
    {i \in 1..Len(ts) : /\ ts[i].valid = TRUE
                        /\ us[ts[i].uid].tid = tid
                        /\ sch[ts[i].sid].date.day = now}

\* the request the dispatcher is handling (Spec), once it has replied
Req == proc[Dispatcher]
Replied(op) == Req.pc = "done" /\ Req.op = op
\* the caller's active tickets of the day when the request began, and now
HadActive == ActiveToday(pre.users, pre.schedule, pre.tickets, pre.today, Req.tid)
HasActive == ActiveToday(users, schedule, tickets, today, Req.tid)
\* the slot the request names, and the departures that had it at the start
Asked == parse_args(Req.args, pre.today)
Named == journeys_query(pre.schedule, Asked.date, Asked.station)
\* the tickets table is the one of the start plus one new active ticket of
\* the caller on the departure sid
OneTicketAdded(sid) ==
    /\ Len(tickets) = Len(pre.tickets) + 1
    /\ SubSeq(tickets, 1, Len(pre.tickets)) = pre.tickets
    /\ tickets[Len(tickets)].valid = TRUE
    /\ tickets[Len(tickets)].sid = sid
    /\ users[tickets[Len(tickets)].uid].tid = Req.tid

\* C1: in every reachable state each user owns at most one ticket with
\* valid = True on a departure of the current day.
C1_AtMostOneActiveTicketToday ==
    \A t \in Tids :
        Cardinality(ActiveToday(users, schedule, tickets, today, t)) <= 1

\* C2: no reachable state holds two schedule rows with the same
\* (date, station): of two identical proposals only one creates a row.
C2_NoTwoRowsShareSlot ==
    \A i, j \in 1..Len(schedule) :
        (schedule[i].date = schedule[j].date
         /\ schedule[i].station = schedule[j].station) => i = j

\* C3: two /ticket requests of one user that run at once, the user holding
\* no ticket before them, do not both issue a ticket.
C3_ConcurrentReservesNotBothBought ==
    \A p, q \in Procs :
        (/\ p # q
         /\ proc[p].op = "ticket" /\ proc[q].op = "ticket"
         /\ proc[p].tid = proc[q].tid
         /\ proc[p].pc = "done" /\ proc[q].pc = "done"
         /\ ActiveToday(users, schedule, tickets, today, proc[p].tid)
               \subseteq {proc[p].tkt, proc[q].tkt})
        => ~(proc[p].reply = "Bought" /\ proc[q].reply = "Bought")

\* C4: get_user creates at most one users row per telegram id, also when the
\* lookups and inserts of first-contact requests interleave.
C4_OneUserRowPerTid ==
    \A t \in Tids : Cardinality(users_by_tid(users, t)) <= 1

\* C5: /ticket by a user without an active ticket today, naming the slot of an
\* existing departure of today, is bought and adds exactly one active ticket
\* of that user on that departure.
C5_ReserveOnExistingDepartureSucceeds ==
    (Replied("ticket") /\ HadActive = {} /\ Asked.date # None /\ Named # {})
    => /\ Req.reply = "Bought"
       /\ \E sid \in Named : OneTicketAdded(sid)

\* C6: /ticket by a user who holds an active ticket today is answered
\* AlreadyBooked and issues no ticket, whatever the arguments.
C6_AlreadyBookedWhateverArgs ==
    (Replied("ticket") /\ HadActive # {})
    => /\ Req.reply = "AlreadyBooked"
       /\ tickets = pre.tickets

\* C7: /revoke by a user who holds an active ticket today succeeds, sets that
\* ticket to valid = False and changes no other ticket and no departure.
C7_RevokeDeactivatesTheTicket ==
    (Replied("revoke") /\ HadActive # {})
    => /\ Req.reply = "Revoked"
       /\ HasActive = {}
       /\ schedule = pre.schedule
       /\ Len(tickets) = Len(pre.tickets)
       /\ \A i \in 1..Len(tickets) :
             i \notin HadActive => tickets[i] = pre.tickets[i]

\* C8 as stated: /revoke by a user without an active ticket today is answered
\* NoActiveTicket and users, schedule and tickets are as before the call.
C8_RevokeWithoutTicketChangesNothing ==
    (Replied("revoke") /\ HadActive = {})
    => /\ Req.reply = "NoActiveTicket"
       /\ users = pre.users
       /\ schedule = pre.schedule
       /\ tickets = pre.tickets

\* C8 amended: /revoke by a user without an active ticket today is answered
\* NoActiveTicket and leaves schedule and tickets as before the call; users
\* is as before too, except that a caller not yet known is added as one row.
C8_RevokeWithoutTicketOnlyResolvesUser ==
    (Replied("revoke") /\ HadActive = {})
    => /\ Req.reply = "NoActiveTicket"
       /\ users = IF users_by_tid(pre.users, Req.tid) = {}
                  THEN Append(pre.users, UserMap(Req.tid))
                  ELSE pre.users
       /\ schedule = pre.schedule
       /\ tickets = pre.tickets

\* a first-contact /revoke has replied while other users hold tickets
C8_Witness ==
    /\ Replied("revoke") /\ HadActive = {}
    /\ Req.reply = "NoActiveTicket"
    /\ users_by_tid(pre.users, Req.tid) = {}
    /\ Len(tickets) > 0

\* C9: after a user has reserved and then revoked, a further /ticket of that
\* user on an existing departure of the day is bought and leaves the user
\* with exactly one active ticket.
C9_ReserveAfterRevokeLeavesOneTicket ==
    (Replied("ticket") /\ hist[Req.tid] = 2
     /\ Asked.date # None /\ Cardinality(Named) = 1)
    => /\ Req.reply = "Bought"
       /\ Cardinality(HasActive) = 1

\* C10: /add_departure by a user without an active ticket today, with a slot
\* that passes parse_args and that no row has yet, is answered with the
\* bought ticket; and whenever it is, the call has added one schedule row
\* with valid = True, the asked slot and the caller as owner, and one active
\* ticket of the caller on that row.
C10_ProposerIsAutoReserved ==
    (Replied("add_departure") /\ HadActive = {})
    => /\ (Asked.date # None /\ Named = {}) => Req.reply = "Bought"
       /\ Req.reply = "Bought" =>
            /\ schedule = Append(pre.schedule,
                  [date |-> Asked.date, station |-> Asked.station,
                   owner |-> Req.user, valid |-> TRUE])
            /\ users[Req.user].tid = Req.tid
            /\ OneTicketAdded(Len(schedule))

\* a proposal was answered with the bought ticket while another user's
\* departure and ticket exist
C10_Witness ==
    /\ Replied("add_departure") /\ HadActive = {}
    /\ Req.reply = "Bought"
    /\ Len(pre.schedule) > 0
    /\ Len(pre.tickets) > 0

\* the messages of parse_args for the two policy errors
OutOfRange == "only supported for the same day"
OutsideBookingHours == "only possible from 11:00 until 14:30"

\* C11: on the day of the call parse_args accepts 14:30, rejects 14:31 and
\* every hour below 11 with the booking-hours message, and rejects a time on
\* another day with the same-day message whatever its clock time; the reply
\* of /add_departure carries that message.
C11_WindowPolicy ==
    Replied("add_departure") =>
    /\ \A s \in Stations :
        /\ parse_args(<<ClockText(14, 30), s>>, today)
              = [date |-> DateTime(today, 14, 30), station |-> s]
        /\ parse_args(<<FullText(today, 14, 30), s>>, today)
              = [date |-> DateTime(today, 14, 30), station |-> s]
        /\ parse_args(<<ClockText(14, 31), s>>, today)
              = [date |-> None, station |-> OutsideBookingHours]
        /\ \A h \in {0, 10}, m \in {0, 59} :
              parse_args(<<ClockText(h, m), s>>, today)
                 = [date |-> None, station |-> OutsideBookingHours]
        /\ \A d \in 1..(MaxDay + 1), h \in {10, 11, 14, 15}, m \in {0, 31} :
              d # today =>
                 parse_args(<<FullText(d, h, m), s>>, today)
                    = [date |-> None, station |-> OutOfRange]
    /\ Len(Req.args) = 2 =>
        /\ Req.args[1] = ClockText(14, 30) => Req.sid # 0
        /\ Req.args[1] = ClockText(14, 31) => Req.reply = OutsideBookingHours
        /\ Req.args[1] = ClockText(10, 59) => Req.reply = OutsideBookingHours
        /\ (Req.args[1].kind = "full" /\ Req.args[1].day # today)
              => Req.reply = OutOfRange

\* /add_departure with a time inside the window on another day was rejected
C11_Witness ==
    /\ Replied("add_departure")
    /\ Req.args = <<FullText(1, 11, 0), "Central">>
    /\ today = 2
    /\ Req.reply = OutOfRange
    /\ schedule = pre.schedule

\* the schedule rows with valid = True and a date on the current day
TodayActiveRows ==
    {i \in 1..Len(schedule) : schedule[i].valid = TRUE
                              /\ schedule[i].date.day = today}
\* the row ids and the order of a listing returned by get_trains_today
ListedIds(list) == {list[k].id : k \in 1..Len(list)}
ListedAscending(list) ==
    \A k \in 1..(Len(list) - 1) :
        DateKey(schedule[list[k].id].date) <= DateKey(schedule[list[k + 1].id].date)

\* C12: the listing /schedule replies with holds exactly the schedule rows
\* with valid = True and a date on the current day, in ascending date order.
C12_ListTodayIsTodaysDepartures ==
    Replied("schedule") =>
        /\ ListedIds(Req.shown) = TodayActiveRows
        /\ ListedAscending(Req.shown)

\* C13: in the listing of /schedule the passengers of a departure are exactly
\* the users holding a ticket with valid = True on it: every such holder on a
\* departure of today is listed with it, and nobody else is.
C13_PassengersAreTheActiveHolders ==
    Replied("schedule") =>
        /\ \A k \in 1..Len(Req.shown) :
              {Req.shown[k].passengers[n] :
                  n \in 1..Len(Req.shown[k].passengers)}
              = {tickets[i].uid : i \in {j \in 1..Len(tickets) :
                     tickets[j].sid = Req.shown[k].id /\ tickets[j].valid = TRUE}}
        /\ \A i \in 1..Len(tickets) :
              (tickets[i].valid = TRUE /\ tickets[i].sid \in TodayActiveRows)
              => \E k \in 1..Len(Req.shown) :
                    /\ Req.shown[k].id = tickets[i].sid
                    /\ \E n \in 1..Len(Req.shown[k].passengers) :
                          Req.shown[k].passengers[n] = tickets[i].uid

\* C14: /ticket without time and station by a user without an active ticket
\* today is answered with the selection prompt carrying today's active
\* departures, and issues no ticket.
C14_SelectionCarriesTodaysDepartures ==
    (Replied("ticket") /\ HadActive = {} /\ Len(Req.args) < 2)
    => /\ Req.reply = "SelectionRequired"
       /\ tickets = pre.tickets
       /\ ListedIds(Req.shown) = TodayActiveRows

\* C15: /ticket by a user without an active ticket today, with a slot that
\* passes parse_args and that no schedule row has, is answered
\* NoSuchDeparture and leaves tickets and schedule as they were.
C15_NoSuchDeparture ==
    (Replied("ticket") /\ HadActive = {} /\ Asked.date # None /\ Named = {})
    => /\ Req.reply = "NoSuchDeparture"
       /\ tickets = pre.tickets
       /\ schedule = pre.schedule

\* /ticket named a free slot while another departure of today exists
C15_Witness ==
    /\ Replied("ticket") /\ HadActive = {}
    /\ Asked.date # None /\ Named = {}
    /\ Req.reply = "NoSuchDeparture"
    /\ TodayActiveRows # {}

\* C16: /add_departure that fails, because parse_args rejects the arguments
\* or because a row with the slot exists already, adds no schedule row and
\* no ticket.
C16_FailedProposalAddsNothing ==
    (Replied("add_departure") /\ (Asked.date = None \/ Named # {}))
    => /\ schedule = pre.schedule
       /\ tickets = pre.tickets

\* the caller's tickets with valid = True on departures of earlier days, when
\* the request began
StaleActive ==
    {i \in 1..Len(pre.tickets) :
        /\ pre.tickets[i].valid = TRUE
        /\ pre.users[pre.tickets[i].uid].tid = Req.tid
        /\ pre.schedule[pre.tickets[i].sid].date.day < pre.today}

\* C17: a user whose only active tickets are on departures of earlier days
\* has no ticket today: /ticket on an existing departure of today is bought
\* and /revoke is answered NoActiveTicket.
C17_RolloverResetsTheUser ==
    (StaleActive # {} /\ HadActive = {})
    => /\ (Replied("ticket") /\ Asked.date # None /\ Named # {})
             => Req.reply = "Bought"
       /\ Replied("revoke") => Req.reply = "NoActiveTicket"

\* C18: no step removes or rewrites a row of tickets or schedule: a ticket
\* starts with valid = True, the only change to it is valid True -> False by
\* a revoke, and every schedule row has valid = True.
C18_RowsKeptTicketsMonotone ==
    [][/\ Len(tickets') >= Len(tickets)
       /\ Len(schedule') >= Len(schedule)
       /\ \A i \in 1..Len(tickets) :
             /\ tickets'[i].sid = tickets[i].sid
             /\ tickets'[i].uid = tickets[i].uid
             /\ tickets'[i].valid => tickets[i].valid
             /\ tickets'[i] # tickets[i] =>
                   \E p \in Procs : proc[p].op = "revoke"
                                    /\ proc'[p].reply = "Revoked"
       /\ \A i \in (Len(tickets) + 1)..Len(tickets') : tickets'[i].valid = TRUE
       /\ \A i \in 1..Len(schedule) : schedule'[i] = schedule[i]
       /\ \A i \in 1..Len(schedule') : schedule'[i].valid = TRUE]_vars

\* a /revoke has replied on the second day with tickets of both days stored
C18_Witness ==
    /\ Replied("revoke")
    /\ today = 2
    /\ \E i, j \in 1..Len(tickets) :
          /\ schedule[tickets[i].sid].date.day = 1
          /\ schedule[tickets[j].sid].date.day = 2

\* C19: /add_departure of a free slot by a user who holds an active ticket
\* today adds the schedule row, and its reservation step is answered
\* AlreadyBooked and adds no ticket.
C19_ProposalByBookedUserAddsNoTicket ==
    (Replied("add_departure") /\ HadActive # {}
     /\ Asked.date # None /\ Named = {})
    => /\ Len(schedule) = Len(pre.schedule) + 1
       /\ Req.reply = "AlreadyBooked"
       /\ tickets = pre.tickets

\* a date inside 11:00 .. 14:30
InWindow(date) ==
    /\ date.hour >= 11
    /\ date.hour < 14 \/ (date.hour = 14 /\ date.minute <= 30)

\* C20: a request adds schedule rows only with a date on the day of the
\* request and inside the window, and tickets only on departures of that
\* day; /ticket with a time that parse_args rejects is answered with the
\* selection prompt and adds no ticket.
C20_RowsAndTicketsAreOfTheDay ==
    /\ \A i \in 1..Len(schedule) :
          InWindow(schedule[i].date) /\ schedule[i].date.day <= today
    /\ \A i \in 1..Len(tickets) : schedule[tickets[i].sid].date.day <= today
    /\ Req.pc # "idle" =>
          /\ \A i \in (Len(pre.schedule) + 1)..Len(schedule) :
                schedule[i].date.day = today
          /\ \A i \in (Len(pre.tickets) + 1)..Len(tickets) :
                schedule[tickets[i].sid].date.day = today
    /\ (Replied("ticket") /\ Len(Req.args) = 2 /\ Asked.date = None)
          => Req.reply = "SelectionRequired" /\ tickets = pre.tickets

\* /ticket named the departure of the day before and was sent to the prompt
C20_Witness ==
    /\ Replied("ticket")
    /\ today = 2
    /\ Req.args = <<FullText(1, 11, 0), "Central">>
    /\ journeys_query(schedule, DateTime(1, 11, 0), "Central") # {}
    /\ Req.reply = "SelectionRequired"
    /\ tickets = pre.tickets
====
